---- MODULE Spec2Model ----
(***************************************************************************)
(* A model of the PLY codec of point_cloud_viewer (src/read_write/ply.rs): *)
(* the header parser, the streaming reader PlyIterator and the streaming   *)
(* writer PlyNodeWriter, over files that are sequences of bytes.           *)
(*                                                                         *)
(* Bytes are the integers 0..255 and text is ASCII.  A 16-, 32- or 64-bit  *)
(* value is kept as its base-256 numeral, most significant digit first     *)
(* (TLC's integers have 32 bits): the little-endian codec reverses it.     *)
(* File I/O is assumed not to fail, and a read of a regular file to fill   *)
(* the buffer it is given whenever the file holds that many bytes.         *)
(***************************************************************************)
EXTENDS Integers, Sequences, FiniteSets, TLC

VARIABLES fs, it, batches, w, hist

vars == <<fs, it, batches, w, hist>>

----------------------------------------------------------------------------
(* Text.  Ascii(s) is the byte sequence of the string literal s.           *)

Ascii(s) ==
  CASE s = "ply" -> <<112, 108, 121>>
  [] s = "format" -> <<102, 111, 114, 109, 97, 116>>
  [] s = "element" -> <<101, 108, 101, 109, 101, 110, 116>>
  [] s = "property" -> <<112, 114, 111, 112, 101, 114, 116, 121>>
  [] s = "end_header" -> <<101, 110, 100, 95, 104, 101, 97, 100, 101, 114>>
  [] s = "comment" -> <<99, 111, 109, 109, 101, 110, 116>>
  [] s = "offset:" -> <<111, 102, 102, 115, 101, 116, 58>>
  [] s = "list" -> <<108, 105, 115, 116>>
  [] s = "1.0" -> <<49, 46, 48>>
  [] s = "ascii" -> <<97, 115, 99, 105, 105>>
  [] s = "binary_little_endian" -> <<98, 105, 110, 97, 114, 121, 95, 108, 105, 116, 116, 108, 101, 95, 101, 110, 100, 105, 97, 110>>
  [] s = "binary_big_endian" -> <<98, 105, 110, 97, 114, 121, 95, 98, 105, 103, 95, 101, 110, 100, 105, 97, 110>>
  [] s = "vertex" -> <<118, 101, 114, 116, 101, 120>>
  [] s = "float" -> <<102, 108, 111, 97, 116>>
  [] s = "float32" -> <<102, 108, 111, 97, 116, 51, 50>>
  [] s = "double" -> <<100, 111, 117, 98, 108, 101>>
  [] s = "float64" -> <<102, 108, 111, 97, 116, 54, 52>>
  [] s = "char" -> <<99, 104, 97, 114>>
  [] s = "int8" -> <<105, 110, 116, 56>>
  [] s = "uchar" -> <<117, 99, 104, 97, 114>>
  [] s = "uint8" -> <<117, 105, 110, 116, 56>>
  [] s = "short" -> <<115, 104, 111, 114, 116>>
  [] s = "int16" -> <<105, 110, 116, 49, 54>>
  [] s = "ushort" -> <<117, 115, 104, 111, 114, 116>>
  [] s = "uint16" -> <<117, 105, 110, 116, 49, 54>>
  [] s = "int" -> <<105, 110, 116>>
  [] s = "int32" -> <<105, 110, 116, 51, 50>>
  [] s = "uint" -> <<117, 105, 110, 116>>
  [] s = "uint32" -> <<117, 105, 110, 116, 51, 50>>
  [] s = "longlong" -> <<108, 111, 110, 103, 108, 111, 110, 103>>
  [] s = "int64" -> <<105, 110, 116, 54, 52>>
  [] s = "ulonglong" -> <<117, 108, 111, 110, 103, 108, 111, 110, 103>>
  [] s = "uint64" -> <<117, 105, 110, 116, 54, 52>>
  [] s = "x" -> <<120>>
  [] s = "y" -> <<121>>
  [] s = "z" -> <<122>>
  [] s = "r" -> <<114>>
  [] s = "red" -> <<114, 101, 100>>
  [] s = "g" -> <<103>>
  [] s = "green" -> <<103, 114, 101, 101, 110>>
  [] s = "b" -> <<98>>
  [] s = "blue" -> <<98, 108, 117, 101>>
  [] s = "a" -> <<97>>
  [] s = "alpha" -> <<97, 108, 112, 104, 97>>
  [] s = "color" -> <<99, 111, 108, 111, 114>>
  [] s = "rgb" -> <<114, 103, 98>>
  [] s = "rgba" -> <<114, 103, 98, 97>>
  [] s = "intensity" -> <<105, 110, 116, 101, 110, 115, 105, 116, 121>>
  [] s = "t" -> <<116>>
  [] s = "n" -> <<110>>
  [] s = "foo1" -> <<102, 111, 111, 49>>
  [] s = "float128" -> <<102, 108, 111, 97, 116, 49, 50, 56>>
  [] s = "exposure" -> <<101, 120, 112, 111, 115, 117, 114, 101>>

HEADER_START_TO_NUM_VERTICES ==
  <<112, 108, 121, 10, 102, 111, 114, 109, 97, 116, 32, 98, 105, 110, 97, 114,
     121, 95, 108, 105, 116, 116, 108, 101, 95, 101, 110, 100, 105, 97, 110, 32,
     49, 46, 48, 10, 101, 108, 101, 109, 101, 110, 116, 32, 118, 101, 114, 116,
     101, 120, 32>>

HEADER_NUM_VERTICES ==
  <<48, 48, 48, 48, 48, 48, 48, 48, 48, 48, 48, 48, 48, 48, 48, 48,
     48, 48, 48, 48>>

NL == 10
SP == 32

IsWhitespace(c) == c \in {9, 10, 11, 12, 13, 32}

IsDigit(c) == c >= 48 /\ c <= 57

Min(a, b) == IF a < b THEN a ELSE b

Reverse(s) == [i \in 1..Len(s) |-> s[Len(s) + 1 - i]]

DropFirst(s, n) == SubSeq(s, n + 1, Len(s))

RECURSIVE Concat(_)
Concat(ss) == IF ss = <<>> THEN <<>> ELSE Head(ss) \o Concat(Tail(ss))

RECURSIVE Zeros(_)
Zeros(n) == IF n <= 0 THEN <<>> ELSE <<0>> \o Zeros(n - 1)

(* Lexicographic order of byte strings: the order of BTreeMap<String, _>.  *)
RECURSIVE StrLess(_, _)
StrLess(a, b) ==
  IF b = <<>> THEN FALSE
  ELSE IF a = <<>> THEN TRUE
  ELSE IF Head(a) # Head(b) THEN Head(a) < Head(b)
  ELSE StrLess(Tail(a), Tail(b))

RECURSIVE SortedKeys(_)
SortedKeys(S) ==
  IF S = {} THEN <<>>
  ELSE LET m == CHOOSE k \in S : \A o \in S \ {k} : StrLess(k, o)
       IN <<m>> \o SortedKeys(S \ {m})

----------------------------------------------------------------------------
(* Scalar types.                                                           *)

DataTypes == {"Int8", "Uint8", "Int16", "Uint16", "Int32", "Uint32",
              "Int64", "Uint64", "Float32", "Float64"}

(* DataType::from_str: "none" stands for the Err of an unknown token.      *)
DataType_from_str(tok) ==
  CASE tok = Ascii("float") \/ tok = Ascii("float32") -> "Float32"
    [] tok = Ascii("double") \/ tok = Ascii("float64") -> "Float64"
    [] tok = Ascii("char") \/ tok = Ascii("int8") -> "Int8"
    [] tok = Ascii("uchar") \/ tok = Ascii("uint8") -> "Uint8"
    [] tok = Ascii("short") \/ tok = Ascii("int16") -> "Int16"
    [] tok = Ascii("ushort") \/ tok = Ascii("uint16") -> "Uint16"
    [] tok = Ascii("int") \/ tok = Ascii("int32") -> "Int32"
    [] tok = Ascii("uint") \/ tok = Ascii("uint32") -> "Uint32"
    [] tok = Ascii("longlong") \/ tok = Ascii("int64") -> "Int64"
    [] tok = Ascii("ulonglong") \/ tok = Ascii("uint64") -> "Uint64"
    [] OTHER -> "none"

(* The bytes a value of the type occupies in a record: size_of of the      *)
(* Rust type the reading function decodes (buf[0], read_u16, ..).          *)
TypeWidth(t) ==
  CASE t \in {"Int8", "Uint8"} -> 1
    [] t \in {"Int16", "Uint16"} -> 2
    [] t \in {"Int32", "Uint32", "Float32"} -> 4
    [] t \in {"Int64", "Uint64", "Float64"} -> 8

(* $num_bytes of read_casted_property: what the compiled step adds to the  *)
(* record size and to nread.                                               *)
NumBytes(t) ==
  CASE t \in {"Uint8", "Int8"} -> 1
    [] t \in {"Uint16", "Int16"} -> 2
    [] t \in {"Uint32", "Int32"} -> 4
    [] t \in {"Uint64", "Int64"} -> 4
    [] t = "Float32" -> 4
    [] t = "Float64" -> 8

----------------------------------------------------------------------------
(* Header parsing.                                                         *)

(* BufRead::read_line from byte offset pos: the offset after the line,     *)
(* which ends with the first newline or with the input.                    *)
RECURSIVE LineEnd(_, _)
LineEnd(bytes, pos) ==
  IF pos >= Len(bytes) THEN Len(bytes)
  ELSE IF bytes[pos + 1] = NL THEN pos + 1
  ELSE LineEnd(bytes, pos + 1)

read_line(bytes, pos) == SubSeq(bytes, pos + 1, LineEnd(bytes, pos))

(* read_line fails on text that is not UTF-8; the model's text is ASCII.   *)
IsText(line) == \A i \in 1..Len(line) : line[i] < 128

(* str::trim *)
RECURSIVE TrimStart(_)
TrimStart(s) ==
  IF s # <<>> /\ IsWhitespace(Head(s)) THEN TrimStart(Tail(s)) ELSE s

trim(s) == Reverse(TrimStart(Reverse(TrimStart(s))))

(* str::split_whitespace, collected: the maximal runs of non-whitespace.   *)
RECURSIVE SplitFrom(_, _, _)
SplitFrom(s, cur, acc) ==
  IF s = <<>> THEN (IF cur = <<>> THEN acc ELSE Append(acc, cur))
  ELSE IF IsWhitespace(Head(s))
       THEN SplitFrom(Tail(s), <<>>, IF cur = <<>> THEN acc ELSE Append(acc, cur))
       ELSE SplitFrom(Tail(s), Append(cur, Head(s)), acc)

split_whitespace(s) == SplitFrom(s, <<>>, <<>>)

RECURSIVE DigitsValue(_, _)
DigitsValue(ds, acc) ==
  IF ds = <<>> THEN acc ELSE DigitsValue(Tail(ds), acc * 10 + (Head(ds) - 48))

AllDigits(ds) == ds # <<>> /\ \A i \in 1..Len(ds) : IsDigit(ds[i])

(* str::parse::<i64>: an optional sign and decimal digits (counts of the   *)
(* model stay far below the 64-bit range).                                 *)
ParseI64(tok) ==
  LET signed == tok # <<>> /\ Head(tok) \in {43, 45}
      ds == IF signed THEN Tail(tok) ELSE tok
  IN IF AllDigits(ds)
     THEN [ok |-> TRUE,
           v |-> IF signed /\ Head(tok) = 45 THEN 0 - DigitsValue(ds, 0)
                 ELSE DigitsValue(ds, 0)]
     ELSE [ok |-> FALSE, v |-> 0]

(* usize::from_str: as above, without the minus sign.                      *)
ParseUsize(tok) ==
  LET ds == IF tok # <<>> /\ Head(tok) = 43 THEN Tail(tok) ELSE tok
  IN IF AllDigits(ds) THEN [ok |-> TRUE, v |-> DigitsValue(ds, 0)]
     ELSE [ok |-> FALSE, v |-> 0]

(* str::parse::<f64> on the offsets of the model, which are whole numbers. *)
ParseF64(tok) == ParseI64(tok)

NoElement == [some |-> FALSE,
              el |-> [name |-> <<>>, count |-> 0, properties |-> <<>>]]

NoHeader == [format |-> "none", elements |-> <<>>, offset |-> <<0, 0, 0>>]

HeaderErr(msg) ==
  [kind |-> "err", msg |-> msg, header |-> NoHeader, header_len |-> 0]

HeaderPanic(msg) ==
  [kind |-> "panic", msg |-> msg, header |-> NoHeader, header_len |-> 0]

(* The loop of parse_header, with the next line at byte offset pos.        *)
RECURSIVE parse_lines(_, _, _, _, _, _)
parse_lines(bytes, pos, format, current_element, elements, offset) ==
  LET line == read_line(bytes, pos)
      next == pos + Len(line)
      entries == split_whitespace(trim(line))
      n == Len(entries)
      closed == IF current_element.some
                THEN Append(elements, current_element.el) ELSE elements
  IN
  IF ~IsText(line) THEN HeaderErr("stream did not contain valid UTF-8")
  ELSE IF n = 0 THEN HeaderPanic("index out of bounds: entries[0]")
  ELSE IF entries[1] = Ascii("format") /\ n = 3 THEN
    IF entries[3] # Ascii("1.0") THEN HeaderErr("Invalid version")
    ELSE IF entries[2] = Ascii("ascii")
      THEN parse_lines(bytes, next, "AsciiV1", current_element, elements, offset)
    ELSE IF entries[2] = Ascii("binary_little_endian")
      THEN parse_lines(bytes, next, "BinaryLittleEndianV1", current_element,
                       elements, offset)
    ELSE IF entries[2] = Ascii("binary_big_endian")
      THEN parse_lines(bytes, next, "BinaryBigEndianV1", current_element,
                       elements, offset)
    ELSE HeaderErr("Invalid format")
  ELSE IF entries[1] = Ascii("element") /\ n = 3 THEN
    LET count == ParseI64(entries[3])
    IN IF ~count.ok THEN HeaderErr("Invalid count")
       ELSE parse_lines(bytes, next, format,
                        [some |-> TRUE,
                         el |-> [name |-> entries[2], count |-> count.v,
                                 properties |-> <<>>]],
                        closed, offset)
  ELSE IF entries[1] = Ascii("property") THEN
    IF ~current_element.some THEN HeaderErr("property outside of element")
    ELSE IF n = 1 THEN HeaderPanic("index out of bounds: entries[1]")
    ELSE IF entries[2] = Ascii("list") /\ n = 5
      THEN parse_lines(bytes, next, format, current_element, elements, offset)
    ELSE IF n = 3 THEN
      LET data_type == DataType_from_str(entries[2])
      IN IF data_type = "none" THEN HeaderErr("Invalid data type")
         ELSE parse_lines(bytes, next, format,
                [some |-> TRUE,
                 el |-> [current_element.el EXCEPT !.properties =
                           Append(@, [name |-> entries[3],
                                      data_type |-> data_type])]],
                elements, offset)
    ELSE HeaderErr("Invalid line")
  ELSE IF entries[1] = Ascii("end_header") THEN
    IF format = "none" THEN HeaderErr("No format specified")
    ELSE [kind |-> "ok", msg |-> "",
          header |-> [format |-> format, elements |-> closed, offset |-> offset],
          header_len |-> next]
  ELSE IF entries[1] = Ascii("comment") THEN
    IF n = 5 /\ entries[2] = Ascii("offset:") THEN
      LET x == ParseF64(entries[3])
          y == ParseF64(entries[4])
          z == ParseF64(entries[5])
      IN IF ~x.ok \/ ~y.ok \/ ~z.ok THEN HeaderErr("Invalid offset")
         ELSE parse_lines(bytes, next, format, current_element, elements,
                          <<x.v, y.v, z.v>>)
    ELSE parse_lines(bytes, next, format, current_element, elements, offset)
  ELSE HeaderErr("Invalid line")

parse_header(bytes) ==
  LET line == read_line(bytes, 0)
  IN IF ~IsText(line) THEN HeaderErr("stream did not contain valid UTF-8")
     ELSE IF trim(line) # Ascii("ply") THEN HeaderErr("Not a PLY file")
     ELSE parse_lines(bytes, Len(line), "none", NoElement, <<>>, <<0, 0, 0>>)

(* Header::has_element and Index<&str> for Header: the first element of    *)
(* that name.                                                              *)
has_element(header, name) ==
  \E i \in 1..Len(header.elements) : header.elements[i].name = name

header_index(header, name) ==
  LET i == CHOOSE i \in 1..Len(header.elements) :
             /\ header.elements[i].name = name
             /\ \A j \in 1..(i - 1) : header.elements[j].name # name
  IN header.elements[i]

----------------------------------------------------------------------------
(* Values and casts.  A float is kept as the numeral of its IEEE-754 bit   *)
(* pattern; bit lists are most significant bit first.                      *)

NatBits(n, k) == [i \in 1..k |-> (n \div (2 ^ (k - i))) % 2]

RECURSIVE BitsValue(_, _)
BitsValue(bits, acc) ==
  IF bits = <<>> THEN acc ELSE BitsValue(Tail(bits), 2 * acc + Head(bits))

BitsOfNumeral(num) == Concat([i \in 1..Len(num) |-> NatBits(num[i], 8)])

NumeralOfBits(bits) ==
  [k \in 1..(Len(bits) \div 8) |-> BitsValue(SubSeq(bits, 8 * k - 7, 8 * k), 0)]

Ones(bits) == {i \in 1..Len(bits) : bits[i] = 1}

MinOf(S) == CHOOSE m \in S : \A o \in S : m <= o

MaxOf(S) == CHOOSE m \in S : \A o \in S : m >= o

(* Two's complement negation, and the successor, of a bit list.            *)
Negate(bits) ==
  LET p == MaxOf(Ones(bits))
  IN [i \in 1..Len(bits) |-> IF i < p THEN 1 - bits[i] ELSE bits[i]]

Increment(bits) ==
  LET p == MaxOf({i \in 1..Len(bits) : bits[i] = 0})
  IN [i \in 1..Len(bits) |-> IF i < p THEN bits[i] ELSE IF i = p THEN 1 ELSE 0]

F64Make(sign, biased, mant) == NumeralOfBits(<<sign>> \o NatBits(biased, 11) \o mant)

F64Zero == Zeros(8)

F64NegZero == <<128>> \o Zeros(7)

(* An integer of magnitude mag (a bit list) as f64, rounded to nearest     *)
(* even when it has more than 53 significant bits.                         *)
IntToF64(sign, mag) ==
  IF Ones(mag) = {} THEN F64Zero
  ELSE LET n == Len(mag)
           l == MinOf(Ones(mag))
           rest == SubSeq(mag, l + 1, n)
           m == n - l
       IN IF m <= 52 THEN F64Make(sign, m + 1023, rest \o Zeros(52 - m))
          ELSE LET kept == NatBits(m + 1023, 11) \o SubSeq(rest, 1, 52)
                   up == /\ rest[53] = 1
                         /\ (rest[52] = 1 \/ \E i \in 54..m : rest[i] = 1)
               IN NumeralOfBits(<<sign>> \o (IF up THEN Increment(kept) ELSE kept))

(* f32 as f64: exact; a NaN comes out quiet.                               *)
F32ToF64(num) ==
  LET bits == BitsOfNumeral(num)
      sign == bits[1]
      exp == BitsValue(SubSeq(bits, 2, 9), 0)
      mant == SubSeq(bits, 10, 32)
  IN IF exp = 255
       THEN F64Make(sign, 2047,
                    (IF Ones(mant) = {} THEN mant ELSE <<1>> \o Tail(mant))
                      \o Zeros(29))
     ELSE IF exp = 0
       THEN IF Ones(mant) = {} THEN F64Make(sign, 0, Zeros(52))
            ELSE LET l == MinOf(Ones(mant))
                 IN F64Make(sign, 897 - l, SubSeq(mant, l + 1, 23) \o Zeros(29 + l))
     ELSE F64Make(sign, exp + 896, mant \o Zeros(29))

(* A float as u8: the saturating cast (NaN to 0).                          *)
FloatToU8(num, expBits, bias) ==
  LET bits == BitsOfNumeral(num)
      exp == BitsValue(SubSeq(bits, 2, 1 + expBits), 0)
      mant == SubSeq(bits, 2 + expBits, Len(bits))
      e == exp - bias
  IN IF exp = 2 ^ expBits - 1 /\ Ones(mant) # {} THEN 0
     ELSE IF bits[1] = 1 \/ e < 0 THEN 0
     ELSE IF e >= 8 THEN 255
     ELSE BitsValue(<<1>> \o SubSeq(mant, 1, e), 0)

(* `$reading_fn(buf) as f64` for a property of type t, le being the bytes  *)
(* the reading function takes.  Int8 is read with buf[0], a u8.            *)
CastToF64(t, le) ==
  LET bits == BitsOfNumeral(Reverse(le))
  IN CASE t = "Float64" -> Reverse(le)
       [] t = "Float32" -> F32ToF64(Reverse(le))
       [] t \in {"Uint8", "Int8", "Uint16", "Uint32", "Uint64"} -> IntToF64(0, bits)
       [] t \in {"Int16", "Int32", "Int64"} ->
            IF bits[1] = 1 THEN IntToF64(1, Negate(bits)) ELSE IntToF64(0, bits)

(* `$reading_fn(buf) as u8`: an integer is truncated to its low byte.      *)
CastToU8(t, le) ==
  CASE t = "Float32" -> FloatToU8(Reverse(le), 8, 127)
    [] t = "Float64" -> FloatToU8(Reverse(le), 11, 1023)
    [] OTHER -> le[1]

(* The value push_reader pushes: `as $dtype` where $dtype is the type read. *)
CastToStored(t, le) == IF t = "Uint8" THEN le[1] ELSE Reverse(le)

(* Whole-number doubles and back, for the global offset.                   *)
F64IsWhole(num) ==
  LET bits == BitsOfNumeral(num)
      exp == BitsValue(SubSeq(bits, 2, 12), 0)
      mant == SubSeq(bits, 13, 64)
  IN \/ exp = 0 /\ Ones(mant) = {}
     \/ exp >= 1023 /\ exp <= 1023 + 20
          /\ \A i \in (exp - 1023 + 1)..52 : mant[i] = 0

F64ToInt(num) ==
  LET bits == BitsOfNumeral(num)
      exp == BitsValue(SubSeq(bits, 2, 12), 0)
      mag == IF exp = 0 THEN 0
             ELSE BitsValue(<<1>> \o SubSeq(bits, 13, 12 + (exp - 1023)), 0)
  IN IF bits[1] = 1 THEN 0 - mag ELSE mag

F64OfInt(v) ==
  IF v < 0 THEN IntToF64(1, NatBits(0 - v, 31)) ELSE IntToF64(0, NatBits(v, 31))

(* x + off for an offset component off (a whole number): x + 0.0 is x but  *)
(* for -0.0; with another offset the model adds whole numbers only.        *)
AddF64(num, off) ==
  IF off = 0 THEN (IF num = F64NegZero THEN F64Zero ELSE num)
  ELSE F64OfInt(F64ToInt(num) + off)

----------------------------------------------------------------------------
(* The reader: PlyIterator.                                                *)

IsAny(name, strs) == \E s \in strs : name = Ascii(s)

(* The factor of the BufReader's capacity, in records.                     *)
BUF_POINTS == 1024

(* A compiled step: the property, what its function assigns to (x, y, z,   *)
(* r, g, b, push, or skip for a function that only advances), and the      *)
(* bytes it adds to nread.                                                 *)
PropertyReader(prop, kind, num_bytes) ==
  [prop |-> prop, kind |-> kind, num_bytes |-> num_bytes]

(* read_casted_property!($prop, $assign, &mut $size) *)
read_casted_property(prop, kind) ==
  PropertyReader(prop, kind, NumBytes(prop.data_type))

(* create_skip_fn!($prop, &mut $size, $num_bytes) *)
create_skip_fn(prop, num_bytes) == PropertyReader(prop, "skip", num_bytes)

(* The body of from_file's loop over the vertex properties.                *)
compile_property(prop) ==
  CASE prop.name = Ascii("x") -> read_casted_property(prop, "x")
    [] prop.name = Ascii("y") -> read_casted_property(prop, "y")
    [] prop.name = Ascii("z") -> read_casted_property(prop, "z")
    [] IsAny(prop.name, {"r", "red"}) -> read_casted_property(prop, "r")
    [] IsAny(prop.name, {"g", "green"}) -> read_casted_property(prop, "g")
    [] IsAny(prop.name, {"b", "blue"}) -> read_casted_property(prop, "b")
    [] IsAny(prop.name, {"a", "alpha"}) -> create_skip_fn(prop, 1)
    [] OTHER ->
         CASE prop.data_type \in {"Uint8", "Uint64", "Int64", "Float32", "Float64"}
                -> read_casted_property(prop, "push")
           [] prop.data_type = "Int8" -> create_skip_fn(prop, 1)
           [] prop.data_type \in {"Uint16", "Int16"} -> create_skip_fn(prop, 2)
           [] prop.data_type \in {"Uint32", "Int32"} -> create_skip_fn(prop, 4)

RECURSIVE SumBytes(_)
SumBytes(readers) ==
  IF readers = <<>> THEN 0 ELSE Head(readers).num_bytes + SumBytes(Tail(readers))

NoIterator ==
  [status |-> "none", stage |-> "", msg |-> "", path |-> "", readers |-> <<>>,
   num_total_points |-> 0, batch_size |-> 0, offset |-> <<0, 0, 0>>,
   point_count |-> 0, num_bytes_per_point |-> 0, capacity |-> 0,
   file_pos |-> 0, buf_start |-> 0, buf_cap |-> 0, buf_pos |-> 0]

FailedIterator(status, msg, path) ==
  [NoIterator EXCEPT !.status = status, !.stage = "from_file", !.msg = msg,
                     !.path = path]

(* seen_xyz with the check of z forgotten.                                 *)
seen_xy(props) ==
  \A s \in {"x", "y"} : \E i \in 1..Len(props) : props[i].name = Ascii(s)

(* seen_x && seen_y && seen_z after the loop over the vertex properties.   *)
seen_xyz(props) ==
  \A s \in {"x", "y", "z"} : \E i \in 1..Len(props) : props[i].name = Ascii(s)

(* from_file after its checks of the header: the readers are compiled and  *)
(* the iterator is built over a BufReader positioned after the header.     *)
compile_readers(parsed, path, batch_size) ==
  LET header == parsed.header
      vertex == header_index(header, Ascii("vertex"))
      props == vertex.properties
      readers == [i \in 1..Len(props) |-> compile_property(props[i])]
      num_bytes_per_point == SumBytes(readers)
  IN
  IF ~seen_xyz(props)
    THEN FailedIterator("panic", "PLY must contain properties 'x', 'y', 'z'", path)
  ELSE [status |-> "open", stage |-> "from_file", msg |-> "", path |-> path,
        readers |-> readers,
        num_total_points |-> vertex.count, batch_size |-> batch_size,
        offset |-> header.offset, point_count |-> 0,
        num_bytes_per_point |-> num_bytes_per_point,
        capacity |-> num_bytes_per_point * BUF_POINTS,
        file_pos |-> parsed.header_len, buf_start |-> parsed.header_len,
        buf_cap |-> 0, buf_pos |-> 0]

(* from_file without its check of the header's format.                    *)
from_file_any_format(file, path, batch_size) ==
  IF ~file.exists THEN FailedIterator("err", "Could not open input file.", path)
  ELSE
  LET parsed == parse_header(file.bytes)
  IN
  IF parsed.kind # "ok" THEN FailedIterator(parsed.kind, parsed.msg, path)
  ELSE IF ~has_element(parsed.header, Ascii("vertex"))
    THEN FailedIterator("panic", "Header does not have element 'vertex'", path)
  ELSE compile_readers(parsed, path, batch_size)

(* PlyIterator::from_file.  status is "open" for Ok(iterator), "err" for   *)
(* Err and "panic" for a panic.                                            *)
from_file(file, path, batch_size) ==
  IF ~file.exists THEN FailedIterator("err", "Could not open input file.", path)
  ELSE
  LET parsed == parse_header(file.bytes)
  IN
  IF parsed.kind # "ok" THEN FailedIterator(parsed.kind, parsed.msg, path)
  ELSE IF ~has_element(parsed.header, Ascii("vertex"))
    THEN FailedIterator("panic", "Header does not have element 'vertex'", path)
  ELSE IF parsed.header.format # "BinaryLittleEndianV1"
    THEN FailedIterator("panic", "Unsupported PLY format", path)
  ELSE compile_readers(parsed, path, batch_size)

(* Attribute maps: BTreeMap<String, AttributeData>.                        *)
EmptyMap == [k \in {} |-> 0]

MapInsert(m, k, v) == [n \in (DOMAIN m) \cup {k} |-> IF n = k THEN v ELSE m[n]]

Column(kind, data) == [kind |-> kind, data |-> data]

EmptyBatch == [position |-> <<>>, attributes |-> EmptyMap]

(* The AttributeData variant that stores a property of type t.             *)
StorageKind(t) ==
  CASE t = "Uint8" -> "U8"
    [] t = "Uint64" -> "U64"
    [] t = "Int64" -> "I64"
    [] t = "Float32" -> "F32"
    [] t = "Float64" -> "F64"
    [] OTHER -> "none"

(* batch_from_readers: "panic" stands for unimplemented!().                *)
RECURSIVE batch_from_readers_from(_, _, _)
batch_from_readers_from(readers, i, batch) ==
  IF i > Len(readers) THEN [kind |-> "ok", batch |-> batch]
  ELSE
  LET prop == readers[i].prop
      other == prop.name
  IN
  IF IsAny(other, {"x", "y", "z"})
    THEN batch_from_readers_from(readers, i + 1, batch)
  ELSE IF IsAny(other, {"r", "red"})
    THEN batch_from_readers_from(readers, i + 1,
           [batch EXCEPT !.attributes =
              MapInsert(@, Ascii("color"), Column("U8Vec3", <<>>))])
  ELSE IF IsAny(other, {"g", "green", "b", "blue", "a", "alpha"})
    THEN batch_from_readers_from(readers, i + 1, batch)
  ELSE IF IsDigit(other[Len(other)])
    THEN [kind |-> "panic", batch |-> batch]
  ELSE IF StorageKind(prop.data_type) = "none"
    THEN batch_from_readers_from(readers, i + 1, batch)
  ELSE batch_from_readers_from(readers, i + 1,
         [batch EXCEPT !.attributes =
            MapInsert(@, other, Column(StorageKind(prop.data_type), <<>>))])

batch_from_readers(readers) == batch_from_readers_from(readers, 1, EmptyBatch)

ZeroVecF64 == <<F64Zero, F64Zero, F64Zero>>

ZeroVecU8 == <<0, 0, 0>>

push_into_multidimensional_attributes(batch) ==
  [position |-> Append(batch.position, ZeroVecF64),
   attributes |->
     [k \in DOMAIN batch.attributes |->
        LET a == batch.attributes[k]
        IN CASE a.kind = "F64Vec3" -> Column(a.kind, Append(a.data, ZeroVecF64))
             [] a.kind = "U8Vec3" -> Column(a.kind, Append(a.data, ZeroVecU8))
             [] OTHER -> a]]

(* PointsBatch::get_attribute_vec_mut::<T>(name) is Ok: the column exists  *)
(* and holds values of type T.                                             *)
get_attribute_vec_mut_ok(batch, name, kind) ==
  name \in DOMAIN batch.attributes /\ batch.attributes[name].kind = kind

SetLast(seq, c, v) == [seq EXCEPT ![Len(seq)] = [@ EXCEPT ![c] = v]]

(* One compiled step, run as (r.func)(&mut nread, &buf[cnread..], batch,   *)
(* name) on the buffered window bytes[lo+1 .. hi].                         *)
run_reader(r, nread, bytes, lo, hi, batch) ==
  LET avail == (hi - lo) - nread
      t == r.prop.data_type
      le == SubSeq(bytes, lo + nread + 1, lo + nread + TypeWidth(t))
      ok(b) == [kind |-> "ok", nread |-> nread + r.num_bytes, batch |-> b]
      panic == [kind |-> "panic", nread |-> nread, batch |-> batch]
      comp == CASE r.kind \in {"x", "r"} -> 1
                [] r.kind \in {"y", "g"} -> 2
                [] OTHER -> 3
  IN
  IF avail < 0 THEN panic
  ELSE IF r.kind = "skip" THEN ok(batch)
  ELSE IF avail < TypeWidth(t) THEN panic
  ELSE IF r.kind \in {"x", "y", "z"}
    THEN ok([batch EXCEPT !.position = SetLast(@, comp, CastToF64(t, le))])
  ELSE IF r.kind \in {"r", "g", "b"}
    THEN IF /\ get_attribute_vec_mut_ok(batch, Ascii("color"), "U8Vec3")
            /\ batch.attributes[Ascii("color")].data # <<>>
         THEN ok([batch EXCEPT !.attributes[Ascii("color")].data =
                    SetLast(@, comp, CastToU8(t, le))])
         ELSE panic
  ELSE IF get_attribute_vec_mut_ok(batch, r.prop.name, StorageKind(t))
    THEN ok([batch EXCEPT !.attributes[r.prop.name].data =
               Append(@, CastToStored(t, le))])
    ELSE panic

RECURSIVE run_readers(_, _, _, _, _, _, _)
run_readers(readers, i, nread, bytes, lo, hi, batch) ==
  IF i > Len(readers) THEN [kind |-> "ok", nread |-> nread, batch |-> batch]
  ELSE LET res == run_reader(readers[i], nread, bytes, lo, hi, batch)
       IN IF res.kind = "panic" THEN res
          ELSE run_readers(readers, i + 1, res.nread, bytes, lo, hi, res.batch)

(* BufReader::fill_buf: an empty buffer is refilled with one read.         *)
fill_buf(iter, bytes) ==
  IF iter.buf_pos >= iter.buf_cap
  THEN LET k == Min(iter.capacity, Len(bytes) - iter.file_pos)
       IN [iter EXCEPT !.buf_start = iter.file_pos, !.buf_cap = k,
                       !.buf_pos = 0, !.file_pos = iter.file_pos + k]
  ELSE iter

(* `self.point_count == self.num_total_points as usize`, and `<`: a        *)
(* negative count is a usize above every point_count.                      *)
CountReached(iter) ==
  iter.num_total_points >= 0 /\ iter.point_count = iter.num_total_points

CountBelow(iter) ==
  iter.num_total_points < 0 \/ iter.point_count < iter.num_total_points

AddOffset(pos, offset) == [c \in 1..3 |-> AddF64(pos[c], offset[c])]

(* The while loop of next.                                                 *)
RECURSIVE next_loop(_, _, _)
next_loop(iter, bytes, batch) ==
  IF CountBelow(iter) /\ Len(batch.position) < iter.batch_size
  THEN LET pushed == push_into_multidimensional_attributes(batch)
           filled == fill_buf(iter, bytes)
           res == run_readers(filled.readers, 1, 0, bytes,
                              filled.buf_start + filled.buf_pos,
                              filled.buf_start + filled.buf_cap, pushed)
           moved == [res.batch EXCEPT !.position[Len(pushed.position)] =
                       AddOffset(@, iter.offset)]
       IN IF res.kind = "panic"
          THEN [kind |-> "panic", iter |-> filled, batch |-> res.batch]
          ELSE next_loop([filled EXCEPT
                            !.buf_pos = Min(@ + res.nread, filled.buf_cap),
                            !.point_count = @ + 1],
                         bytes, moved)
  ELSE [kind |-> "some", iter |-> iter, batch |-> batch]

(* PlyIterator::next: "none" for None, "some" for Some(batch), "panic".    *)
next(iter, bytes) ==
  IF CountReached(iter) THEN [kind |-> "none", iter |-> iter, batch |-> EmptyBatch]
  ELSE LET fresh == batch_from_readers(iter.readers)
       IN IF fresh.kind = "panic"
          THEN [kind |-> "panic", iter |-> iter, batch |-> EmptyBatch]
          ELSE next_loop(iter, bytes, fresh.batch)

----------------------------------------------------------------------------
(* The writer: PlyNodeWriter over a DataWriter, a seekable byte sink.      *)

NoFile == [exists |-> FALSE, bytes |-> <<>>]

FileOf(bytes) == [exists |-> TRUE, bytes |-> bytes]

(* DataWriter::new: Truncate empties the file, Append keeps it (creating   *)
(* it when missing); writing starts at offset 0.                           *)
DataWriter_new(file, open_mode) ==
  IF open_mode = "Truncate" \/ ~file.exists THEN FileOf(<<>>) ELSE file

(* Write::write_all at offset pos: overwrites, and extends at the end.     *)
write_all(bytes, pos, data) ==
  SubSeq(bytes, 1, pos) \o data \o SubSeq(bytes, pos + Len(data) + 1, Len(bytes))

NoWriter ==
  [status |-> "none", path |-> "", open_mode |-> "", encoding |-> "",
   pos |-> 0, point_count |-> 0]

(* PlyNodeWriter::new.  kind is "panic" when the count field of the file   *)
(* does not parse.                                                         *)
PlyNodeWriter_new(file, path, encoding, open_mode) ==
  LET start == Len(HEADER_START_TO_NUM_VERTICES)
      width == Len(HEADER_NUM_VERTICES)
      reads == /\ open_mode = "Append"
               /\ file.exists
               /\ Len(file.bytes) >= start + width
      buf == SubSeq(file.bytes, start + 1, start + width)
      parsed == IF IsText(buf) THEN ParseUsize(buf) ELSE [ok |-> FALSE, v |-> 0]
      point_count == IF reads THEN parsed.v ELSE 0
      opened == DataWriter_new(file, open_mode)
  IN IF reads /\ ~parsed.ok
     THEN [kind |-> "panic", writer |-> NoWriter, file |-> file]
     ELSE [kind |-> "ok",
           writer |-> [status |-> "open", path |-> path, open_mode |-> open_mode,
                       encoding |-> encoding,
                       pos |-> IF point_count > 0 THEN Len(opened.bytes) - 1 ELSE 0,
                       point_count |-> point_count],
           file |-> opened]

Encodings ==
  {"Plain", "ScaledToCube_Uint8", "ScaledToCube_Uint16", "ScaledToCube_Float32",
   "ScaledToCube_Float64"}

pos_data_str(encoding) ==
  CASE encoding = "Plain" -> "double"
    [] encoding = "ScaledToCube_Uint8" -> "uchar"
    [] encoding = "ScaledToCube_Uint16" -> "ushort"
    [] encoding = "ScaledToCube_Float32" -> "float"
    [] encoding = "ScaledToCube_Float64" -> "double"

PropertyLine(data_str, name) ==
  Ascii("property") \o <<SP>> \o Ascii(data_str) \o <<SP>> \o name \o <<NL>>

(* usize::to_string *)
RECURSIVE to_string(_)
to_string(n) ==
  IF n < 10 THEN <<48 + n>> ELSE to_string(n \div 10) \o <<48 + (n % 10)>>

(* The property lines of one (name, data_str, num_properties) of the       *)
(* header's attribute list.                                                *)
element_lines(e) ==
  IF e.name = Ascii("color") \/ e.name = Ascii("rgb") \/ e.name = Ascii("rgba")
  THEN LET colors == <<"red", "green", "blue", "alpha">>
       IN Concat([i \in 1..Min(e.num_properties, 4) |->
                    PropertyLine(e.data_str, Ascii(colors[i]))])
  ELSE IF e.num_properties > 1
  THEN Concat([i \in 1..e.num_properties |->
                 PropertyLine(e.data_str, e.name \o to_string(i - 1))])
  ELSE PropertyLine(e.data_str, e.name)

(* The bytes PlyNodeWriter::create_header writes.                          *)
create_header(encoding, elements) ==
  HEADER_START_TO_NUM_VERTICES \o HEADER_NUM_VERTICES \o <<NL>>
    \o Concat([i \in 1..3 |->
                 PropertyLine(pos_data_str(encoding), Ascii(<<"x", "y", "z">>[i]))])
    \o Concat([i \in 1..Len(elements) |-> element_lines(elements[i])])
    \o Ascii("end_header") \o <<NL>>

(* The textual type of a column and AttributeData::dim.                    *)
data_str_of(kind) ==
  CASE kind = "U8" -> "uchar"
    [] kind = "I64" -> "longlong"
    [] kind = "U64" -> "ulonglong"
    [] kind = "F32" -> "float"
    [] kind = "F64" -> "double"
    [] kind = "U8Vec3" -> "uchar"
    [] kind = "F64Vec3" -> "double"

dim(kind) == IF kind \in {"U8Vec3", "F64Vec3"} THEN 3 ELSE 1

(* Vector3<f64>::write_encoded with Encoding::Plain: three doubles.        *)
write_encoded(pos, encoding) ==
  CASE encoding = "Plain" -> Reverse(pos[1]) \o Reverse(pos[2]) \o Reverse(pos[3])

(* AttributeData::write_le_pos: the value at index i, little-endian.       *)
write_le_pos(column, i) ==
  LET v == column.data[i]
  IN CASE column.kind = "U8" -> <<v>>
       [] column.kind \in {"U64", "I64", "F32", "F64"} -> Reverse(v)
       [] column.kind = "U8Vec3" -> v
       [] column.kind = "F64Vec3" -> Reverse(v[1]) \o Reverse(v[2]) \o Reverse(v[3])

(* The record of point i of a batch, as write lays it out.                 *)
batch_record(p, keys, i, encoding) ==
  write_encoded(p.position[i], encoding)
    \o Concat([k \in 1..Len(keys) |-> write_le_pos(p.attributes[keys[k]], i)])

(* write with the header emitted by every non-empty write.                 *)
write_batch_header_each(writer, bytes, p) ==
  IF p.position = <<>> THEN [writer |-> writer, bytes |-> bytes]
  ELSE
  LET keys == SortedKeys(DOMAIN p.attributes)
      header == create_header(writer.encoding,
                  [k \in 1..Len(keys) |->
                     [name |-> keys[k],
                      data_str |-> data_str_of(p.attributes[keys[k]].kind),
                      num_properties |-> dim(p.attributes[keys[k]].kind)]])
      data == header \o Concat([i \in 1..Len(p.position) |->
                                  batch_record(p, keys, i, writer.encoding)])
  IN [writer |-> [writer EXCEPT !.pos = @ + Len(data),
                                !.point_count = @ + Len(p.position)],
      bytes |-> write_all(bytes, writer.pos, data)]

(* NodeWriter<PointsBatch>::write *)
write_batch(writer, bytes, p) ==
  IF p.position = <<>> THEN [writer |-> writer, bytes |-> bytes]
  ELSE
  LET keys == SortedKeys(DOMAIN p.attributes)
      header == IF writer.point_count = 0
                THEN create_header(writer.encoding,
                       [k \in 1..Len(keys) |->
                          [name |-> keys[k],
                           data_str |-> data_str_of(p.attributes[keys[k]].kind),
                           num_properties |-> dim(p.attributes[keys[k]].kind)]])
                ELSE <<>>
      data == header \o Concat([i \in 1..Len(p.position) |->
                                  batch_record(p, keys, i, writer.encoding)])
  IN [writer |-> [writer EXCEPT !.pos = @ + Len(data),
                                !.point_count = @ + Len(p.position)],
      bytes |-> write_all(bytes, writer.pos, data)]

(* NodeWriter<Point>::write; p.intensity is <<>> for None and <<v>> for    *)
(* Some(v).                                                                *)
write_point(writer, bytes, p) ==
  LET attributes ==
        <<[name |-> Ascii("color"), data_str |-> "uchar", num_properties |-> 3]>>
          \o (IF p.intensity # <<>>
              THEN <<[name |-> Ascii("intensity"), data_str |-> "float",
                      num_properties |-> 1]>>
              ELSE <<>>)
      header == IF writer.point_count = 0
                THEN create_header(writer.encoding, attributes) ELSE <<>>
      data == header \o write_encoded(p.position, writer.encoding) \o p.color
                \o (IF p.intensity # <<>> THEN Reverse(p.intensity[1]) ELSE <<>>)
  IN [writer |-> [writer EXCEPT !.pos = @ + Len(data), !.point_count = @ + 1],
      bytes |-> write_all(bytes, writer.pos, data)]

(* zero_padded with one character more than the width asked for.          *)
zero_padded_wider(n, width) ==
  LET s == to_string(n)
  IN [i \in 1..(width + 1 - Len(s)) |-> 48] \o s

(* `{:0width$}` of the point count.                                        *)
zero_padded(n, width) ==
  LET s == to_string(n)
  IN [i \in 1..(width - Len(s)) |-> 48] \o s

(* The trailing newline that drop writes, and the count that it patches in. *)
drop_newline(writer, bytes) == write_all(bytes, writer.pos, <<NL>>)

(* drop_patch with the seek to the start of the file instead of to the    *)
(* count field.                                                            *)
drop_patch_from_start(writer, bytes) ==
  write_all(bytes, 0, zero_padded(writer.point_count, Len(HEADER_NUM_VERTICES)))

drop_patch(writer, bytes) ==
  write_all(bytes, Len(HEADER_START_TO_NUM_VERTICES),
            zero_padded(writer.point_count, Len(HEADER_NUM_VERTICES)))

(* drop with the newline written before the point count is looked at.     *)
drop_newline_first(writer, bytes) ==
  IF writer.point_count = 0 THEN drop_newline(writer, bytes)
  ELSE drop_patch(writer, drop_newline(writer, bytes))

(* impl Drop for PlyNodeWriter *)
drop(writer, bytes) ==
  IF writer.point_count = 0 THEN bytes
  ELSE drop_patch(writer, drop_newline(writer, bytes))

----------------------------------------------------------------------------
(* Inputs.                                                                 *)

(* The largest vertex count of the small input files, the largest batch    *)
(* size a reader is opened with, and the writer sessions and write calls   *)
(* of one run.                                                             *)
MaxPoints == 3

MaxBatch == 2

MaxSessions == 3

MaxWrites == 3

MaxAborts == 1

(* BATCH_SIZE of the tests: the batch size the written file is read with.  *)
BATCH_SIZE == 2

(* The data section of the input files: a fixed byte pattern.              *)
DataBytes(n) == [i \in 1..n |-> (i * 37 + 11) % 256]

RECURSIVE RecordSize(_)
RecordSize(props) ==
  IF props = <<>> THEN 0
  ELSE TypeWidth(DataType_from_str(Ascii(Head(props)[1]))) + RecordSize(Tail(props))

(* A file of `count` whole records of the properties props (pairs of a     *)
(* type token and a name), ended by the newline the format ends with.      *)
MakeFile(format, offset, count, props) ==
  FileOf(Ascii("ply") \o <<NL>>
           \o Ascii("format") \o <<SP>> \o Ascii(format) \o <<SP>> \o Ascii("1.0")
           \o <<NL>>
           \o (IF offset = <<0, 0, 0>> THEN <<>>
               ELSE Ascii("comment") \o <<SP>> \o Ascii("offset:")
                      \o Concat([c \in 1..3 |-> <<SP>> \o to_string(offset[c])])
                      \o <<NL>>)
           \o Ascii("element") \o <<SP>> \o Ascii("vertex") \o <<SP>>
           \o to_string(count) \o <<NL>>
           \o Concat([i \in 1..Len(props) |->
                        PropertyLine(props[i][1], Ascii(props[i][2]))])
           \o Ascii("end_header") \o <<NL>>
           \o DataBytes(count * RecordSize(props)) \o <<NL>>)

XyzF32 == <<<<"float", "x">>, <<"float", "y">>, <<"float", "z">>>>

XyzF64 == <<<<"double", "x">>, <<"double", "y">>, <<"double", "z">>>>

XyzU8 == <<<<"uchar", "x">>, <<"uchar", "y">>, <<"uchar", "z">>>>

Rgb == <<<<"uchar", "red">>, <<"uchar", "green">>, <<"uchar", "blue">>>>

(* Positions of signed integer types, z first.                             *)
IntXyz == <<<<"int", "z">>, <<"char", "x">>, <<"short", "y">>>>

(* The vertex property lists of the input files.                           *)
Schemas ==
  { XyzF32 \o Rgb \o <<<<"float", "intensity">>>>,
    XyzF32 \o Rgb \o <<<<"uchar", "alpha">>>>,
    XyzF64 \o <<<<"ulonglong", "t">>>>,
    <<<<"int64", "t">>>> \o XyzF64 \o <<<<"uchar", "n">>>>,
    <<<<"float", "x">>, <<"float", "y">>>>,
    XyzF64 \o <<<<"float", "foo1">>>>,
    XyzF32 \o <<<<"float", "intensity">>, <<"float", "intensity">>>>,
    XyzU8 \o <<<<"uchar", "green">>>>,
    <<<<"short", "x">>, <<"char", "y">>, <<"uint", "z">>,
      <<"ushort", "exposure">>, <<"float", "alpha">>>>,
    XyzU8 \o <<<<"float", "b">>, <<"ushort", "r">>>>,
    IntXyz }

(* A file of as many records as the reader's buffer is sized for; it is    *)
(* read in large batches.                                                  *)
BigInput ==
  MakeFile("binary_little_endian", <<0, 0, 0>>, BUF_POINTS,
           XyzU8 \o <<<<"ulonglong", "t">>>>)

BigBatch == BUF_POINTS \div 32

(* A file that ends k bytes early.                                         *)
CutShort(file, k) == FileOf(SubSeq(file.bytes, 1, Len(file.bytes) - k))

(* Files whose data section ends before the declared count of records: in  *)
(* a skipped property, in a decoded property, and between two records.     *)
ShortInputs ==
  { CutShort(MakeFile("binary_little_endian", <<0, 0, 0>>, MaxPoints - 1,
                      XyzU8 \o <<<<"uchar", "alpha">>>>), 2),
    CutShort(MakeFile("binary_little_endian", <<0, 0, 0>>, MaxPoints - 1,
                      XyzF32 \o Rgb), 3),
    CutShort(MakeFile("binary_little_endian", <<0, 0, 0>>, MaxPoints,
                      XyzF32 \o Rgb), 16) }

BatchSizes(file) == IF file = BigInput THEN {BigBatch} ELSE 1..MaxBatch

ReaderInputs ==
  { MakeFile("binary_little_endian", <<0, 0, 0>>, n, s) :
      n \in 0..MaxPoints, s \in Schemas }
    \cup { MakeFile(f, <<0, 0, 0>>, n, XyzF32 \o Rgb) :
             f \in {"ascii", "binary_big_endian"}, n \in {0, MaxPoints} }
    \cup { MakeFile("binary_little_endian", <<10, 20, 30>>, MaxPoints, XyzU8),
           MakeFile("binary_little_endian", <<10, 20, 30>>, MaxPoints, IntXyz),
           BigInput }
    \cup ShortInputs

(* The ground-truth files the writer's input batches are decoded from.     *)
GtInputs ==
  { MakeFile("binary_little_endian", <<0, 0, 0>>, BATCH_SIZE + 1,
             XyzF32 \o Rgb \o <<<<"float", "intensity">>>>),
    MakeFile("binary_little_endian", <<0, 0, 0>>, BATCH_SIZE + 1,
             XyzF64 \o <<<<"ulonglong", "t">>>>) }

(* The loop of test_ply_read_write over a file:                            *)
(*   PlyIterator::from_file(path, BATCH_SIZE).unwrap().for_each(..)        *)
(* every call of next, up to None or a failure.                            *)
RECURSIVE for_each(_, _, _)
for_each(iter, bytes, acc) ==
  LET res == next(iter, bytes)
  IN IF res.kind = "some"
     THEN for_each(res.iter, bytes, Append(acc, res.batch))
     ELSE [iter |-> [res.iter EXCEPT !.stage = "next",
                                     !.status = IF res.kind = "none" THEN "done"
                                                ELSE "panic"],
           batches |-> acc]

(* Every batch a reader of batch size b yields on a file, in order.        *)
decode_all(file, b) ==
  LET iter == from_file(file, "gt", b)
  IN IF iter.status = "open" THEN for_each(iter, file.bytes, <<>>).batches
     ELSE <<>>

F32NaN == <<127, 192, 0, 0>>

F64One == <<63, 240, 0, 0, 0, 0, 0, 0>>

F64Two == <<64, 0, 0, 0, 0, 0, 0, 0>>

F64MinusHalf == <<191, 224, 0, 0, 0, 0, 0, 0>>

(* Batches written that do not come from a file.                           *)
ValueBatches ==
  { [position |-> <<<<F64One, F64One, F64MinusHalf>>, <<F64Two, F64Two, F64Two>>>>,
     attributes |->
       MapInsert(MapInsert(EmptyMap, Ascii("color"),
                           Column("U8Vec3", <<<<255, 0, 7>>, <<1, 2, 3>>>>)),
                 Ascii("intensity"), Column("F32", <<F32NaN, <<63, 128, 0, 0>>>>))],
    [position |-> <<<<F64Two, F64One, F64Two>>, <<F64One, F64Two, F64One>>>>,
     attributes |->
       MapInsert(EmptyMap, Ascii("t"),
                 Column("U64", <<<<1, 2, 3, 4, 5, 6, 7, 8>>,
                                 <<0, 0, 0, 0, 0, 0, 1, 0>>>>))] }

(* Single points written: (position, color, intensity).                    *)
ValuePoints ==
  { [position |-> <<F64Two, F64Two, F64One>>, color |-> <<9, 8, 7>>,
     intensity |-> <<F32NaN>>] }

(* A single point as the batch of one point that it is written as.         *)
PointAsBatch(p) ==
  [position |-> <<p.position>>,
   attributes |->
     LET c == MapInsert(EmptyMap, Ascii("color"), Column("U8Vec3", <<p.color>>))
     IN IF p.intensity = <<>> THEN c
        ELSE MapInsert(c, Ascii("intensity"), Column("F32", p.intensity))]

----------------------------------------------------------------------------
(* The state machine.  fs holds the files: "gt", an input file, and        *)
(* "test", the file the writer writes.  it is the reader, batches what it  *)
(* has returned, w the writer, and hist the writer sessions so far: how    *)
(* each was opened, the batches written in it and how it ended.            *)

Paths == {"gt", "test"}

TypeOK ==
  /\ DOMAIN fs = Paths
  /\ it.status \in {"none", "open", "done", "err", "panic"}
  /\ w.status \in {"none", "open", "panic"}
  /\ Len(hist) <= MaxSessions

(* PlyIterator::from_file(path, batch_size) *)
FromFile(path, batch_size) ==
  /\ it.status = "none"
  /\ w.status = "none"
  /\ it' = from_file(fs[path], path, batch_size)
  /\ batches' = <<>>
  /\ UNCHANGED <<fs, w, hist>>

(* One call of PlyIterator::next.                                          *)
Next_ ==
  /\ it.status = "open"
  /\ LET res == next(it, fs[it.path].bytes)
     IN /\ it' = [res.iter EXCEPT !.stage = "next",
                                  !.status = CASE res.kind = "none" -> "done"
                                               [] res.kind = "some" -> "open"
                                               [] res.kind = "panic" -> "panic"]
        /\ batches' = IF res.kind = "some" THEN Append(batches, res.batch)
                      ELSE batches
  /\ UNCHANGED <<fs, w, hist>>

(* The loop of test_ply_read_write over the written file.                  *)
ReadBack(path, batch_size) ==
  /\ it.status = "none"
  /\ w.status = "none"
  /\ \E iter \in {from_file(fs[path], path, batch_size)} :
       \E res \in {IF iter.status = "open"
                   THEN for_each(iter, fs[path].bytes, <<>>)
                   ELSE [iter |-> iter, batches |-> <<>>]} :
         it' = res.iter /\ batches' = res.batches
  /\ UNCHANGED <<fs, w, hist>>

TotalWrites ==
  LET RECURSIVE sum(_)
      sum(h) == IF h = <<>> THEN 0 ELSE Head(h).writes + sum(Tail(h))
  IN sum(hist)

(* PlyNodeWriter::new("test", Encoding::Plain, open_mode) *)
Open(open_mode) ==
  /\ w.status = "none"
  /\ hist # <<>> => open_mode = "Append"
  /\ it.status \in {"none", "done", "err", "panic"}
  /\ Len(hist) < MaxSessions
  /\ LET res == PlyNodeWriter_new(fs["test"], "test", "Plain", open_mode)
     IN /\ w' = IF res.kind = "ok" THEN res.writer
                ELSE [NoWriter EXCEPT !.status = "panic"]
        /\ fs' = [fs EXCEPT !["test"] = res.file]
        /\ hist' = Append(hist, [open_mode |-> open_mode,
                                 start_count |-> res.writer.point_count,
                                 batches |-> <<>>, writes |-> 0, end |-> "open",
                                 count |-> res.writer.point_count])
  /\ it' = NoIterator
  /\ batches' = <<>>

Written(res, bs) ==
  /\ w' = res.writer
  /\ fs' = [fs EXCEPT !["test"] = FileOf(res.bytes)]
  /\ hist' = [hist EXCEPT ![Len(hist)].batches = @ \o bs,
                          ![Len(hist)].writes = @ + 1,
                          ![Len(hist)].count = res.writer.point_count]
  /\ UNCHANGED <<it, batches>>

(* NodeWriter<PointsBatch>::write(p) *)
WriteBatch(p) ==
  /\ w.status = "open"
  /\ TotalWrites < MaxWrites
  /\ Written(write_batch(w, fs["test"].bytes, p), <<p>>)

(* NodeWriter<Point>::write(p) *)
WritePoint(p) ==
  /\ w.status = "open"
  /\ TotalWrites < MaxWrites
  /\ Written(write_point(w, fs["test"].bytes, p), <<PointAsBatch(p)>>)

(* The loop of test_ply_read_write:                                        *)
(*   PlyIterator::from_file(gt, BATCH_SIZE).unwrap()                       *)
(*       .for_each(|p| ply_writer.write(&p).unwrap())                      *)
RECURSIVE write_batches(_, _, _)
write_batches(writer, bytes, ps) ==
  IF ps = <<>> THEN [writer |-> writer, bytes |-> bytes]
  ELSE LET res == write_batch(writer, bytes, Head(ps))
       IN write_batches(res.writer, res.bytes, Tail(ps))

CopyGt ==
  /\ w.status = "open"
  /\ TotalWrites < MaxWrites
  /\ \E ps \in {decode_all(fs["gt"], BATCH_SIZE)} :
       \E res \in {write_batches(w, fs["test"].bytes, ps)} : Written(res, ps)

(* The writer goes out of scope: impl Drop for PlyNodeWriter.              *)
DropWriter ==
  /\ w.status = "open"
  /\ fs' = [fs EXCEPT !["test"] = FileOf(drop(w, fs["test"].bytes))]
  /\ w' = NoWriter
  /\ hist' = [hist EXCEPT ![Len(hist)].end = "drop"]
  /\ UNCHANGED <<it, batches>>

(* The process stops with the writer open: drop never runs.  What was      *)
(* written has reached the file.                                           *)
Abort ==
  /\ w.status = "open"
  /\ Cardinality({i \in 1..Len(hist) : hist[i].end = "abort"}) < MaxAborts
  /\ w' = NoWriter
  /\ hist' = [hist EXCEPT ![Len(hist)].end = "abort"]
  /\ UNCHANGED <<fs, it, batches>>

(* The reader alone, on the input files.                                   *)
Init ==
  /\ \E f \in ReaderInputs : fs = [p \in Paths |-> IF p = "gt" THEN f ELSE NoFile]
  /\ it = NoIterator
  /\ batches = <<>>
  /\ w = NoWriter
  /\ hist = <<>>

Next ==
  \/ \E b \in BatchSizes(fs["gt"]) : FromFile("gt", b)
  \/ Next_

Spec == Init /\ [][Next]_vars

(* The writer on "test", fed with batches decoded from "gt" and with       *)
(* batches and points of its own, and the reader on what it wrote.         *)
InitW ==
  /\ \E f \in GtInputs : fs = [p \in Paths |-> IF p = "gt" THEN f ELSE NoFile]
  /\ it = NoIterator
  /\ batches = <<>>
  /\ w = NoWriter
  /\ hist = <<>>

NextW ==
  \/ \E m \in {"Truncate", "Append"} : Open(m)
  \/ \E p \in ValueBatches : WriteBatch(p)
  \/ CopyGt
  \/ \E p \in ValuePoints : WritePoint(p)
  \/ DropWriter
  \/ Abort
  \/ hist # <<>> /\ ReadBack("test", BATCH_SIZE)

SpecW == InitW /\ [][NextW]_vars


----------------------------------------------------------------------------
(* The header parser alone, on headers put together line by line.          *)

(* The lines a header holds after its first line, at most.                 *)
MaxHeaderLines == 3

(* A header line: its entries, separated by single spaces, and the newline *)
(* that read_line reads up to.                                             *)
RECURSIVE Line(_)
Line(entries) ==
  IF entries = <<>> THEN <<NL>>
  ELSE IF Len(entries) = 1 THEN Head(entries) \o <<NL>>
  ELSE Head(entries) \o <<SP>> \o Line(Tail(entries))

HeaderLines ==
  { Line(<<Ascii("format"), Ascii("binary_little_endian"), Ascii("1.0")>>),
    Line(<<Ascii("element"), Ascii("vertex"), to_string(1)>>),
    Line(<<Ascii("property"), Ascii("uchar"), Ascii("x")>>),
    Line(<<Ascii("property"), Ascii("list"), Ascii("uchar"), Ascii("int"),
           Ascii("n")>>),
    Line(<<Ascii("comment"), Ascii("offset:"), Ascii("x")>>),
    Line(<<Ascii("end_header")>>),
    Line(<<>>),
    Line(<<Ascii("property")>>),
    Line(<<Ascii("format"), Ascii("ascii")>>),
    Line(<<Ascii("foo1"), Ascii("x")>>) }

NumLines(bytes) == Cardinality({i \in 1..Len(bytes) : bytes[i] = NL})

(* One more line is written to the input file before it is opened.         *)
AddLine(line) ==
  /\ it.status = "none"
  /\ fs["gt"].exists
  /\ NumLines(fs["gt"].bytes) <= MaxHeaderLines
  /\ fs' = [fs EXCEPT !["gt"] = FileOf(@.bytes \o line)]
  /\ UNCHANGED <<it, batches, w, hist>>

InitH ==
  /\ fs = [p \in Paths |-> IF p = "gt" THEN FileOf(<<>>) ELSE NoFile]
  /\ it = NoIterator
  /\ batches = <<>>
  /\ w = NoWriter
  /\ hist = <<>>

NextH ==
  \/ \E line \in HeaderLines \cup {Line(<<Ascii("ply")>>)} : AddLine(line)
  \/ FromFile("gt", 1)

SpecH == InitH /\ [][NextH]_vars

----------------------------------------------------------------------------
(* The writer alone, on batches and points of every shape: with and        *)
(* without columns, empty, with and without intensity.                     *)

(* A batch without points, as batch_from_readers builds it.                *)
EmptyBatches ==
  { [position |-> <<>>,
     attributes |-> MapInsert(EmptyMap, Ascii("color"), Column("U8Vec3", <<>>))] }

(* A single point without intensity.                                       *)
PlainPoints ==
  { [position |-> <<F64One, F64Two, F64MinusHalf>>, color |-> <<4, 5, 6>>,
     intensity |-> <<>>] }

InitV ==
  /\ fs = [p \in Paths |-> NoFile]
  /\ it = NoIterator
  /\ batches = <<>>
  /\ w = NoWriter
  /\ hist = <<>>

NextV ==
  \/ \E m \in {"Truncate", "Append"} : Open(m)
  \/ \E p \in ValueBatches \cup EmptyBatches : WriteBatch(p)
  \/ \E p \in ValuePoints \cup PlainPoints : WritePoint(p)
  \/ DropWriter
  \/ Abort

SpecV == InitV /\ [][NextV]_vars
----------------------------------------------------------------------------
(* What the properties below speak of.                                     *)

(* The points of a sequence of batches, in order: each point's position    *)
(* and its value in every column.                                          *)
BatchPoints(b) ==
  [i \in 1..Len(b.position) |->
     [position |-> b.position[i],
      attributes |->
        [k \in DOMAIN b.attributes |->
           IF i <= Len(b.attributes[k].data)
           THEN <<b.attributes[k].kind, b.attributes[k].data[i]>> ELSE <<>>]]]

PointsOf(bs) == Concat([i \in 1..Len(bs) |-> BatchPoints(bs[i])])

Layout(b) == [k \in DOMAIN b.attributes |-> b.attributes[k].kind]

SameLayout(bs) == \A i, j \in 1..Len(bs) : Layout(bs[i]) = Layout(bs[j])

CeilDiv(n, b) == (n + b - 1) \div b

RECURSIVE SumLen(_)
SumLen(bs) == IF bs = <<>> THEN 0 ELSE Len(Head(bs).position) + SumLen(Tail(bs))

(* The header of a file, where the parser accepts it and the file has a    *)
(* vertex element.                                                         *)
HasVertex(file) ==
  /\ file.exists
  /\ parse_header(file.bytes).kind = "ok"
  /\ has_element(parse_header(file.bytes).header, Ascii("vertex"))

DeclaredFormat(file) == parse_header(file.bytes).header.format

Vertex(file) == header_index(parse_header(file.bytes).header, Ascii("vertex"))

RECURSIVE DeclaredRecordSize(_)
DeclaredRecordSize(props) ==
  IF props = <<>> THEN 0
  ELSE TypeWidth(Head(props).data_type) + DeclaredRecordSize(Tail(props))

(* The file holds as many whole records as it declares, and at most the    *)
(* closing newline after them.                                             *)
WholeRecords(file) ==
  /\ HasVertex(file)
  /\ DeclaredFormat(file) = "BinaryLittleEndianV1"
  /\ Vertex(file).count >= 0
  /\ LET data == Len(file.bytes) - parse_header(file.bytes).header_len
         need == Vertex(file).count * DeclaredRecordSize(Vertex(file).properties)
     IN data \in {need, need + 1}

LacksXyz(file) ==
  \E s \in {"x", "y", "z"} :
    \A i \in 1..Len(Vertex(file).properties) :
      Vertex(file).properties[i].name # Ascii(s)

(* A generic attribute: a property that is no position and no color        *)
(* channel.                                                                *)
HasDigitName(file) ==
  \E i \in 1..Len(Vertex(file).properties) :
    LET name == Vertex(file).properties[i].name
    IN /\ ~IsAny(name, {"x", "y", "z", "r", "red", "g", "green", "b", "blue",
                        "a", "alpha"})
       /\ IsDigit(name[Len(name)])

(* The reader has been opened on path and has come to its end: None, or a  *)
(* failure.                                                                *)
Decoded(path) == it.path = path /\ it.status \in {"done", "err", "panic"}

FieldStart == Len(HEADER_START_TO_NUM_VERTICES)

FieldWidth == Len(HEADER_NUM_VERTICES)

CountField(bytes) == SubSeq(bytes, FieldStart + 1, FieldStart + FieldWidth)

(* The last session before session i that was dropped with points: what    *)
(* the count field holds when session i opens.                             *)
RECURSIVE FinalizedBefore(_)
FinalizedBefore(i) ==
  IF i <= 1 THEN 0
  ELSE IF hist[i - 1].end = "drop" /\ hist[i - 1].count > 0 THEN hist[i - 1].count
  ELSE FinalizedBefore(i - 1)

LastSession == hist[Len(hist)]

----------------------------------------------------------------------------
(* C1: on a file of N whole records read with batch size B, next never     *)
(* fails, and when it has returned None it has yielded ceil(N/B) batches,  *)
(* all of B points but the last, which has 1 to B, N points in all.        *)
BatchCounts ==
  (it.path = "gt" /\ it.stage = "next" /\ WholeRecords(fs["gt"])) =>
    /\ it.status # "panic"
    /\ it.status = "done" =>
         /\ Len(batches) = CeilDiv(Vertex(fs["gt"]).count, it.batch_size)
         /\ \A i \in 1..Len(batches) :
              /\ Len(batches[i].position) \in 1..it.batch_size
              /\ i < Len(batches) => Len(batches[i].position) = it.batch_size
         /\ SumLen(batches) = Vertex(fs["gt"]).count

(* C2: the batches of A written in Truncate mode and dropped, then written *)
(* again in Append mode and dropped, decode to A's points twice, in order, *)
(* with twice A's count declared.                                          *)
AppendTwice ==
  LET A == decode_all(fs["gt"], BATCH_SIZE)
  IN (/\ Len(hist) = 2
      /\ hist[1].open_mode = "Truncate" /\ hist[2].open_mode = "Append"
      /\ \A i \in 1..2 : hist[i].batches = A /\ hist[i].end = "drop"
      /\ Decoded("test")) =>
       /\ it.status = "done"
       /\ PointsOf(batches) = PointsOf(A) \o PointsOf(A)
       /\ it.num_total_points = 2 * Vertex(fs["gt"]).count

(* C3: batches of one layout written with Plain encoding and dropped       *)
(* decode to the same points: the same position and the same value in      *)
(* every column, in order.                                                 *)
RoundTrip ==
  (/\ Len(hist) = 1
   /\ hist[1].end = "drop" /\ hist[1].count > 0
   /\ SameLayout(hist[1].batches)
   /\ Decoded("test")) =>
    /\ it.status = "done"
    /\ PointsOf(batches) = PointsOf(hist[1].batches)

ResumeAfterAbort ==
  (/\ Len(hist) = 3
   /\ hist[1].end = "drop" /\ hist[1].count > 0
   /\ hist[2].open_mode = "Append" /\ hist[2].end = "abort"
   /\ hist[2].count > hist[2].start_count
   /\ hist[3].open_mode = "Append" /\ hist[3].end = "drop"
   /\ hist[3].count > hist[3].start_count
   /\ SameLayout(hist[1].batches \o hist[2].batches \o hist[3].batches)) =>
    /\ hist[3].start_count = hist[1].count
    /\ Decoded("test") =>
         /\ it.status = "done"
         /\ PointsOf(batches) = PointsOf(hist[1].batches \o hist[3].batches)

(* C6: a file whose header declares ascii or binary_big_endian is refused  *)
(* by from_file: no iterator is returned, and next yields nothing.         *)
UnsupportedFormatFails ==
  (/\ it.path = "gt" /\ HasVertex(fs["gt"])
   /\ DeclaredFormat(fs["gt"]) \in {"AsciiV1", "BinaryBigEndianV1"}) =>
    /\ it.status \in {"err", "panic"}
    /\ it.stage = "from_file"
    /\ batches = <<>>

UnsupportedFormatWitness ==
  /\ it.path = "gt" /\ HasVertex(fs["gt"])
  /\ DeclaredFormat(fs["gt"]) \in {"AsciiV1", "BinaryBigEndianV1"}
  /\ it.status = "panic" /\ it.msg = "Unsupported PLY format"

(* C7, as stated: a vertex element that lacks x, y or z, or that has a     *)
(* generic attribute whose name ends in a digit, makes from_file fail,     *)
(* whatever the declared count.                                            *)
BadPropertiesFailOpen ==
  (/\ it.path = "gt" /\ WholeRecords(fs["gt"])
   /\ LacksXyz(fs["gt"]) \/ HasDigitName(fs["gt"])) =>
    /\ it.status \in {"err", "panic"}
    /\ it.stage = "from_file"

(* C7, as the code has it: a vertex element that lacks x, y or z makes     *)
(* from_file fail, whatever the declared count.  With x, y and z there, a  *)
(* generic attribute whose name ends in a digit lets from_file return an   *)
(* iterator; its first next fails before a point is decoded when the count *)
(* is not 0, and returns None when the count is 0.                         *)
BadPropertiesFail ==
  (it.path = "gt" /\ WholeRecords(fs["gt"])) =>
    /\ LacksXyz(fs["gt"]) =>
         /\ it.status = "panic" /\ it.stage = "from_file"
         /\ batches = <<>>
    /\ (~LacksXyz(fs["gt"]) /\ HasDigitName(fs["gt"])) =>
         /\ batches = <<>> /\ it.point_count = 0
         /\ it.status \in {"open", "done", "panic"}
         /\ it.status = "open" => it.stage = "from_file"
         /\ it.status = "done" => Vertex(fs["gt"]).count = 0
         /\ it.status = "panic" =>
              it.stage = "next" /\ Vertex(fs["gt"]).count # 0
         /\ Vertex(fs["gt"]).count # 0 => it.status # "done"

BadPropertiesWitness ==
  /\ it.path = "gt" /\ WholeRecords(fs["gt"])
  /\ ~LacksXyz(fs["gt"]) /\ HasDigitName(fs["gt"])
  /\ it.status = "panic" /\ it.stage = "next"

(* C8: every compiled step advances by the width of its property's         *)
(* declared type, and the record size of the iterator is the sum of these  *)
(* widths.                                                                 *)
StepWidths ==
  (it.path = "gt" /\ it.status = "open") =>
    /\ \A i \in 1..Len(it.readers) :
         it.readers[i].num_bytes = TypeWidth(it.readers[i].prop.data_type)
    /\ it.num_bytes_per_point = DeclaredRecordSize(Vertex(fs["gt"]).properties)

(* C9: in every batch that next has returned, position and every column    *)
(* have the same length.                                                   *)
ColumnsAligned ==
  \A i \in 1..Len(batches) :
    \A k \in DOMAIN batches[i].attributes :
      Len(batches[i].attributes[k].data) = Len(batches[i].position)

(* C10, as stated: the count field of a written file is 21 digits right    *)
(* after "element vertex ".                                                *)
CountFieldOf21 ==
  (fs["test"].exists /\ fs["test"].bytes # <<>>) =>
    /\ Len(fs["test"].bytes) >= FieldStart + 21
    /\ SubSeq(fs["test"].bytes, 1, FieldStart) = HEADER_START_TO_NUM_VERTICES
    /\ AllDigits(SubSeq(fs["test"].bytes, FieldStart + 1, FieldStart + 21))

(* C10, as the code has it: the count field of a written file is the 20    *)
(* digits right after "element vertex ", closed by a newline; a drop with  *)
(* points leaves the point count in these 20 digits, and an Append open    *)
(* starts from the value of these 20 digits.                               *)
CountFieldOf20 ==
  /\ (fs["test"].exists /\ fs["test"].bytes # <<>>) =>
       /\ Len(fs["test"].bytes) > FieldStart + 20
       /\ SubSeq(fs["test"].bytes, 1, FieldStart) = HEADER_START_TO_NUM_VERTICES
       /\ AllDigits(SubSeq(fs["test"].bytes, FieldStart + 1, FieldStart + 20))
       /\ fs["test"].bytes[FieldStart + 21] = NL
  /\ (w.status = "none" /\ hist # <<>> /\ LastSession.end = "drop"
        /\ LastSession.count > 0) =>
       DigitsValue(SubSeq(fs["test"].bytes, FieldStart + 1, FieldStart + 20), 0)
         = LastSession.count
  /\ \A i \in 1..Len(hist) :
       hist[i].start_count =
         IF hist[i].open_mode = "Append" THEN FinalizedBefore(i) ELSE 0

CountFieldWitness ==
  /\ Len(hist) >= 2 /\ w.status = "none"
  /\ LastSession.open_mode = "Append" /\ LastSession.start_count > 0
  /\ LastSession.end = "drop" /\ LastSession.count > LastSession.start_count

----------------------------------------------------------------------------
(* What parse_header is to refuse: a header whose first line is "ply" and  *)
(* that, before an end_header line, has a line that is no format, element, *)
(* property, comment or end_header line of the right shape, or ends.       *)
WellFormedLine(entries) ==
  /\ entries # <<>>
  /\ \/ entries[1] = Ascii("format") /\ Len(entries) = 3
     \/ entries[1] = Ascii("element") /\ Len(entries) = 3
     \/ entries[1] = Ascii("property") /\ Len(entries) = 3
     \/ /\ entries[1] = Ascii("property") /\ Len(entries) = 5
        /\ entries[2] = Ascii("list")
     \/ entries[1] = Ascii("comment")
     \/ entries[1] = Ascii("end_header")

RECURSIVE MalformedFrom(_, _)
MalformedFrom(bytes, pos) ==
  LET line == read_line(bytes, pos)
      entries == split_whitespace(trim(line))
  IN IF ~WellFormedLine(entries) THEN TRUE
     ELSE IF entries[1] = Ascii("end_header") THEN FALSE
     ELSE MalformedFrom(bytes, pos + Len(line))

MalformedHeader(bytes) ==
  /\ trim(read_line(bytes, 0)) = Ascii("ply")
  /\ MalformedFrom(bytes, Len(read_line(bytes, 0)))

(* C11: parse_header ends with a Header or with an error that it returns,  *)
(* and with an error on every header that has a malformed line, an empty   *)
(* line or no end_header line.                                             *)
HeaderErrors ==
  (it.path = "gt" /\ it.stage = "from_file") =>
    /\ parse_header(fs["gt"].bytes).kind \in {"ok", "err"}
    /\ MalformedHeader(fs["gt"].bytes) => it.status = "err"

(* A drop of a writer through which no point was written, and a write.     *)
IdleDrop ==
  /\ w.status = "open" /\ w'.status = "none"
  /\ hist'[Len(hist')].end = "drop"
  /\ LastSession.count = LastSession.start_count

WriteStep ==
  /\ w.status = "open" /\ w'.status = "open"
  /\ hist'[Len(hist')].writes = LastSession.writes + 1

WrittenBytes == SubSeq(fs'["test"].bytes, w.pos + 1, w'.pos)

StartsWithHeader(bytes) ==
  /\ Len(bytes) >= FieldStart
  /\ SubSeq(bytes, 1, FieldStart) = HEADER_START_TO_NUM_VERTICES

(* C13: a write of an empty batch writes nothing and keeps the count; a    *)
(* write of n > 0 points adds n to the count and writes the header exactly *)
(* when the count is 0, hence once per writer and never for a writer that  *)
(* started from a count above 0, and the header is followed at once by the *)
(* n records of the write.                                                 *)
HeaderOnce ==
  [][WriteStep =>
       LET p == hist'[Len(hist')].batches[Len(hist'[Len(hist')].batches)]
           n == Len(p.position)
           parsed == parse_header(WrittenBytes)
           vertex == header_index(parsed.header, Ascii("vertex"))
       IN /\ n = 0 => (fs' = fs /\ w' = w)
          /\ n > 0 =>
               /\ w'.point_count = w.point_count + n
               /\ StartsWithHeader(WrittenBytes) <=> w.point_count = 0
               /\ StartsWithHeader(WrittenBytes) =>
                    /\ LastSession.start_count = 0 /\ LastSession.count = 0
                    /\ parsed.kind = "ok"
                    /\ has_element(parsed.header, Ascii("vertex"))
                    /\ Len(WrittenBytes) - parsed.header_len
                         = n * DeclaredRecordSize(vertex.properties)
               /\ Len(fs'["test"].bytes) >= w'.pos]_vars

HeaderOnceWitness ==
  /\ w.status = "open" /\ hist # <<>>
  /\ LastSession.start_count = 0 /\ LastSession.count > 0
  /\ LastSession.writes >= MaxWrites
  /\ \E i \in 1..Len(LastSession.batches) : LastSession.batches[i].position = <<>>

(* The vertex properties of the input file, the offset of property k in a  *)
(* record, and the bytes of property k of the j-th record of the file.     *)
Props == Vertex(fs["gt"]).properties

PropOffset(k) == DeclaredRecordSize(SubSeq(Props, 1, k - 1))

PropBytes(j, k) ==
  LET start == parse_header(fs["gt"].bytes).header_len
                 + (j - 1) * DeclaredRecordSize(Props) + PropOffset(k)
  IN SubSeq(fs["gt"].bytes, start + 1, start + TypeWidth(Props[k].data_type))

(* The last property of the vertex element that has one of the names.      *)
LastNamed(k, names) ==
  /\ IsAny(Props[k].name, names)
  /\ \A l \in (k + 1)..Len(Props) : ~IsAny(Props[l].name, names)

ColorNames == <<{"r", "red"}, {"g", "green"}, {"b", "blue"}>>

HasColor(file) ==
  \E k \in 1..Len(Vertex(file).properties) :
    IsAny(Vertex(file).properties[k].name,
          {"r", "red", "g", "green", "b", "blue"})

(* The point at index i of the b-th batch is the record of this number.    *)
RecordOf(b, i) == (b - 1) * it.batch_size + i

(* C14: on a file that declares any of the color channels, next does not   *)
(* fail, every batch has a color column with an entry per point, and each  *)
(* declared channel of an entry holds the value decoded from the record.   *)
ColorChannels ==
  (/\ it.path = "gt" /\ it.stage = "next" /\ WholeRecords(fs["gt"])
   /\ ~LacksXyz(fs["gt"]) /\ ~HasDigitName(fs["gt"]) /\ HasColor(fs["gt"])) =>
    /\ it.status # "panic"
    /\ \A b \in 1..Len(batches) :
         /\ Ascii("color") \in DOMAIN batches[b].attributes
         /\ LET color == batches[b].attributes[Ascii("color")]
            IN /\ color.kind = "U8Vec3"
               /\ Len(color.data) = Len(batches[b].position)
               /\ \A i \in 1..Len(color.data), c \in 1..3, k \in 1..Len(Props) :
                    LastNamed(k, ColorNames[c]) =>
                      color.data[i][c]
                        = CastToU8(Props[k].data_type, PropBytes(RecordOf(b, i), k))

(* The value of the little-endian bytes le as an integer of the type t:    *)
(* two's complement for the signed types.  (The types whose values fit the *)
(* integers of the checker.)                                               *)
RECURSIVE Base256(_, _)
Base256(num, acc) ==
  IF num = <<>> THEN acc ELSE Base256(Tail(num), acc * 256 + Head(num))

IntValue(t, le) ==
  LET num == Reverse(le)
  IN IF t \in {"Int8", "Int16", "Int32"} /\ num[1] >= 128
     THEN 0 - Base256([i \in 1..Len(num) |-> 255 - num[i]], 0) - 1
     ELSE Base256(num, 0)

(* C15: an x, y or z property of an integer type decodes to the value of   *)
(* its bytes in that type, as a double, plus the offset of the header.     *)
IntegerPositions ==
  (it.path = "gt" /\ it.stage = "next" /\ WholeRecords(fs["gt"])) =>
    \A b \in 1..Len(batches), c \in 1..3, k \in 1..Len(Props) :
      \A i \in 1..Len(batches[b].position) :
        (/\ LastNamed(k, {<<"x", "y", "z">>[c]})
         /\ Props[k].data_type \in {"Int8", "Uint8", "Int16", "Uint16", "Int32"}) =>
          batches[b].position[i][c]
            = F64OfInt(IntValue(Props[k].data_type, PropBytes(RecordOf(b, i), k))
                         + parse_header(fs["gt"].bytes).header.offset[c])

(* A file the reader decodes record by record: x, y and z are there, no    *)
(* generic attribute has a digit at the end of its name, and a color       *)
(* channel comes with r or red.                                            *)
Decodable(file) ==
  /\ ~LacksXyz(file) /\ ~HasDigitName(file)
  /\ HasColor(file) =>
       \E k \in 1..Len(Vertex(file).properties) :
         IsAny(Vertex(file).properties[k].name, {"r", "red"})

(* C16: on a file of whole records, no decode step of next fails for want  *)
(* of buffered bytes; the buffered window starts at a record boundary, the *)
(* cursor in it is at the boundary of the next record to decode, and the   *)
(* window holds whole records up to the end of the file.                   *)
AlignedWindow ==
  (/\ it.path = "gt" /\ it.stage = "next" /\ WholeRecords(fs["gt"])
   /\ Decodable(fs["gt"])) =>
    LET rec == DeclaredRecordSize(Props)
        data == parse_header(fs["gt"].bytes).header_len
    IN /\ it.status # "panic"
       /\ (it.buf_start - data) % rec = 0
       /\ it.buf_start + it.buf_pos - data = it.point_count * rec
       /\ \/ it.buf_cap % rec = 0
          \/ it.buf_start + it.buf_cap = Len(fs["gt"].bytes)
       /\ (it.status = "open" /\ CountBelow(it) /\ it.buf_pos < it.buf_cap) =>
            it.buf_cap - it.buf_pos >= rec

(* The bytes of the file after its header.                                 *)
DataLen(file) == Len(file.bytes) - parse_header(file.bytes).header_len

(* The data section ends before the declared count of records.             *)
ShortOfRecords(file) ==
  /\ HasVertex(file) /\ DeclaredFormat(file) = "BinaryLittleEndianV1"
  /\ Vertex(file).count >= 0
  /\ DataLen(file)
       < Vertex(file).count * DeclaredRecordSize(Vertex(file).properties)

(* C17: on a file whose data section is short of the declared count, the   *)
(* reader never comes to its normal end, and the points it has decoded and *)
(* returned are whole records of the file.                                 *)
ShortReadFails ==
  (/\ it.path = "gt" /\ it.stage = "next" /\ ShortOfRecords(fs["gt"])
   /\ Decodable(fs["gt"])) =>
    /\ it.status # "done"
    /\ it.point_count * DeclaredRecordSize(Props) <= DataLen(fs["gt"])
    /\ SumLen(batches) * DeclaredRecordSize(Props) <= DataLen(fs["gt"])

(* C18: after a drop with points, the written file parses, declares the    *)
(* final point count, and holds between its header and its closing         *)
(* newline that many records of the size its header implies.               *)
DataSectionSize ==
  (/\ w.status = "none" /\ hist # <<>>
   /\ LastSession.end = "drop" /\ LastSession.count > 0) =>
    /\ HasVertex(fs["test"])
    /\ Vertex(fs["test"]).count = LastSession.count
    /\ fs["test"].bytes[Len(fs["test"].bytes)] = NL
    /\ DataLen(fs["test"]) - 1
         = LastSession.count * DeclaredRecordSize(Vertex(fs["test"]).properties)

====
